---------------------------- MODULE Spec2Model ----------------------------
(***************************************************************************)
(* winmutex.Mutex over lockedthread.Thread (gentlemanautomaton/winobj).    *)
(*                                                                         *)
(* Caller goroutines (Tasks) call New, Lock, TryLock, Unlock and Close on  *)
(* Mutex instances (Inst).  Every instance owns one lockedthread.Thread: a *)
(* worker goroutine locked to one OS thread, fed through an unbuffered     *)
(* command channel.  All instances are opened on one named system mutex;   *)
(* the system mutex is owned by an OS thread and is recursive, as Windows  *)
(* mutexes are.                                                            *)
(***************************************************************************)
EXTENDS Integers, FiniteSets, Sequences, TLC

NTasks == 2
NInst == 2

\* The recursion count of the system mutex that callers stop at.
MaxCount == 2

Tasks == 1..NTasks
Inst == 1..NInst

\* OS threads of the Go scheduler's pool.  Thread i is the thread that no
\* worker goroutine has been locked to before instance i's.
OSThreads == Inst

\* A caller goroutine is not locked to a thread; whatever thread it runs on is
\* none of the locked ones.
CallerThread == NInst + 1

\* Another process that uses the named mutex: its place among the holders of
\* handles, and its thread.
Ext == 0
ExtThread == NInst + 2

\* The value of owner when the thread that owned the mutex has terminated
\* without releasing it: nobody owns it, and the next wait that acquires it
\* is told so.
Abandoned == NInst + 3

GoodName == "WinObj-WinMutex-Test"
BadName == "\\"
Names == {GoodName, BadName}

WaitObject0 == 0
WaitTimeout == 258
WaitAbandoned == 128
\* syscall.INFINITE, 0xffffffff, as the 32-bit word read as a signed integer
Infinite == -1

Ops == {"New", "Lock", "TryLock", "Unlock", "Close"}

\* The methods of lockedthread.Thread, when a caller uses a Thread directly.
ThreadOps == {"Run", "ThreadClose"}

VARIABLES
    \* winmutex.Mutex, per instance
    name,       \* Mutex.name (the argument of New)
    mstate,     \* "none" | "constructing" | "returned" | "failed"
    thread,     \* Mutex.thread: "nil" | "set"
    handle,     \* Mutex.handle: 0 | 1
    locked,     \* Mutex.locked
    mutex,      \* Mutex.mutex: the task holding it, 0 when free
    \* lockedthread.Thread, per instance
    cmds,       \* Thread.cmds: "nil" | "open" | "closed"
    tmutex,     \* Thread.mutex: the task holding it, 0 when free
    worker,     \* the worker goroutine: "none" | "recv" | "exec" | "exited"
    wcmd,       \* the task whose command the worker holds, 0 when none
    osthread,   \* the OS thread the worker locked itself to
    \* the named system mutex object
    owner,      \* the OS thread that owns it, 0 when signaled, or Abandoned
    count,      \* its recursion count
    open,       \* per instance, and for Ext: its system handle is open
    \* caller goroutines
    pc, op, cur, ret,
    arg,        \* the name argument of a call of Exists
    lerr,       \* the errors the call's closures captured
    levent,     \* the event the wait returned
    cdone,      \* the command's done channel is closed
    \* history
    seen,       \* what the call's wait found: "none" | "free" | "self" | "other"
                \* | "orphan" | "process" | "abandoned"; what the open of
                \* Exists found: "absent" | "instance" | "handle"
    after,      \* the call began after a Close of its instance had returned
    native,     \* the call has made a system call
    callers,    \* per instance: the OS threads that made system calls on its handle
    nrel, nclh, nshut,  \* per instance: releases in Close, CloseHandles, close(cmds)
    closeReturned,      \* per instance: a Close that tore it down has returned
    failed,     \* a system call of Close has failed
    step        \* per task: the calls of its script made so far

mvars == <<name, mstate, thread, handle, locked, mutex>>
tvars == <<cmds, tmutex, worker, wcmd, osthread>>
nvars == <<owner, count, open>>
cvars == <<pc, op, cur, arg, ret, lerr, levent, cdone>>
hvars == <<seen, after, native, callers, nrel, nclh, nshut, closeReturned, failed>>
vars == <<mvars, tvars, nvars, cvars, hvars, step>>

Init ==
    /\ name = [i \in Inst |-> GoodName]
    /\ mstate = [i \in Inst |-> "none"]
    /\ thread = [i \in Inst |-> "nil"]
    /\ handle = [i \in Inst |-> 0]
    /\ locked = [i \in Inst |-> FALSE]
    /\ mutex = [i \in Inst |-> 0]
    /\ cmds = [i \in Inst |-> "nil"]
    /\ tmutex = [i \in Inst |-> 0]
    /\ worker = [i \in Inst |-> "none"]
    /\ wcmd = [i \in Inst |-> 0]
    /\ osthread = [i \in Inst |-> 0]
    /\ owner = 0
    /\ count = 0
    /\ open = [i \in Inst \cup {Ext} |-> FALSE]
    /\ pc = [t \in Tasks |-> "idle"]
    /\ op = [t \in Tasks |-> "none"]
    /\ cur = [t \in Tasks |-> 1]
    /\ arg = [t \in Tasks |-> GoodName]
    /\ ret = [t \in Tasks |-> "none"]
    /\ lerr = [t \in Tasks |-> {}]
    /\ levent = [t \in Tasks |-> WaitObject0]
    /\ cdone = [t \in Tasks |-> FALSE]
    /\ seen = [t \in Tasks |-> "none"]
    /\ after = [t \in Tasks |-> FALSE]
    /\ native = [t \in Tasks |-> FALSE]
    /\ callers = [i \in Inst |-> {}]
    /\ nrel = [i \in Inst |-> 0]
    /\ nclh = [i \in Inst |-> 0]
    /\ nshut = [i \in Inst |-> 0]
    /\ closeReturned = [i \in Inst |-> FALSE]
    /\ failed = FALSE
    /\ step = [t \in Tasks |-> 0]


-----------------------------------------------------------------------------
(* Helpers *)

\* The worker goroutine of instance i is running, locked to osthread[i].
Live(i) == worker[i] \in {"recv", "exec"}

LockedThreads == {osthread[i] : i \in {j \in Inst : Live(j)}}

FreeThreads == OSThreads \ LockedThreads

\* runtime.LockOSThread in the new worker goroutine of instance i: any thread
\* of the pool that no goroutine is locked to.  Unlocked threads that do not
\* own the system mutex are interchangeable, and thread i stands for them; the
\* unlocked thread that still owns the system mutex, if there is one, is a
\* choice of its own.
PickThreads(i) ==
    (IF owner \in FreeThreads THEN {owner} ELSE {}) \cup {i}

\* The system handle of instance i as its closures pass it: valid when
\* Mutex.handle is non-zero and the system handle is open.
Valid(i) == handle[i] # 0 /\ open[i]

\* The tasks inside Exists that hold the handle OpenMutex gave them.
ExistsHandles == {t \in Tasks : pc[t] = "xclose"}

\* The holders of the open handles of the system mutex: the instances, the
\* other process, and task t inside Exists as NInst + t.
Handles ==
    {j \in Inst \cup {Ext} : open[j]} \cup {NInst + t : t \in ExistsHandles}

OtherHandles(i) == Handles \ {i}

\* Who owns the system mutex, as seen by a wait made on thread th.
Seen(th) ==
    IF owner = 0 THEN "free"
    ELSE IF owner = th THEN "self"
    ELSE IF owner \in LockedThreads THEN "other"
    ELSE IF owner = ExtThread THEN "process"
    ELSE IF owner = Abandoned THEN "abandoned"
    ELSE "orphan"

-----------------------------------------------------------------------------
(* lockedthread.Thread *)

\* Run calling f itself, on whatever thread the caller is running on.
ExecOnCaller(i, t) == CallerThread

\* The thread that runs cmd.fn: the worker goroutine's locked OS thread.
ExecThread(i, t) == osthread[i]

\* A panic unwinding task t's call: the deferred m.mutex.Unlock() releases
\* Mutex.mutex if the call holds it.
Panic(t) ==
    /\ pc' = [pc EXCEPT ![t] = "done"]
    /\ ret' = [ret EXCEPT ![t] = "panic"]
    /\ mutex' = [mutex EXCEPT ![cur[t]] = IF @ = t THEN 0 ELSE @]

\* Run without the t.cmds == nil test.
RunNeverFindsClosed(i) == FALSE

\* if t.cmds == nil { panic(...) } of Run
RunFindsClosed(i) == cmds[i] = "nil"

\* Run and Close without Thread.mutex.
ThreadMutexIgnored(i) == TRUE

\* Thread.mutex is free for the taking: t.mutex.Lock() of Run and of Close.
ThreadMutexFree(i) == tmutex[i] = 0

\* Thread.Run up to the send: take Thread.mutex and panic if the thread is
\* closed.
RunLock(t) ==
    LET i == cur[t] IN
    /\ pc[t] = "run"
    /\ ThreadMutexFree(i)
    /\ IF RunFindsClosed(i)
       THEN /\ Panic(t)
            /\ UNCHANGED tmutex
       ELSE /\ tmutex' = [tmutex EXCEPT ![i] = t]
            /\ pc' = [pc EXCEPT ![t] = "send"]
            /\ UNCHANGED <<ret, mutex>>
    /\ UNCHANGED <<name, mstate, thread, handle, locked, cmds, worker, wcmd, osthread>>
    /\ UNCHANGED <<nvars, op, cur, arg, lerr, levent, cdone, hvars, step>>

\* t.cmds <- command{fn: f, done: done}: the send on the unbuffered command
\* channel completes when the worker's range loop receives it.  A send on a
\* closed channel panics, and the deferred t.mutex.Unlock() runs; a send on a
\* nil channel blocks forever.
RunSend(t) ==
    LET i == cur[t] IN
    /\ pc[t] = "send"
    /\ cmds[i] # "nil"
    /\ IF cmds[i] = "closed"
       THEN /\ Panic(t)
            /\ tmutex' = [tmutex EXCEPT ![i] = IF @ = t THEN 0 ELSE @]
            /\ UNCHANGED <<worker, wcmd>>
       ELSE /\ worker[i] = "recv"
            /\ worker' = [worker EXCEPT ![i] = "exec"]
            /\ wcmd' = [wcmd EXCEPT ![i] = t]
            /\ pc' = [pc EXCEPT ![t] = "runwait"]
            /\ UNCHANGED <<ret, mutex, tmutex>>
    /\ UNCHANGED <<name, mstate, thread, handle, locked, cmds, osthread>>
    /\ UNCHANGED <<nvars, op, cur, arg, lerr, levent, cdone, hvars, step>>

\* The worker's range loop ends when the command channel is closed: the
\* goroutine unlocks its OS thread and closes Thread.done.
WorkerExit(i) ==
    /\ worker[i] = "recv"
    /\ cmds[i] = "closed"
    /\ worker' = [worker EXCEPT ![i] = "exited"]
    /\ UNCHANGED <<mvars, cmds, tmutex, wcmd, osthread, nvars, cvars, hvars, step>>

-----------------------------------------------------------------------------
(* The system calls, made by the closures on thread th *)

TryLockTimeout == 0

\* Lock probing as TryLock does.
LockTimeoutZero == TryLockTimeout

LockTimeout == Infinite

\* synchapi.CreateMutex(name, false, nil)
FnCreate(i, t, th) ==
    /\ IF name[i] = BadName
       THEN /\ lerr' = [lerr EXCEPT ![t] = {"create"}]
            /\ UNCHANGED open
       ELSE /\ open' = [open EXCEPT ![i] = TRUE]
            /\ UNCHANGED lerr
    /\ UNCHANGED <<owner, count, levent, seen, nrel, nclh, failed>>

\* syscall.WaitForSingleObject(m.handle, timeout).  An infinite wait returns
\* when the mutex is signaled, abandoned or owned by the waiting thread
\* itself; a wait on an invalid handle fails at once.  The call returns an
\* error only when the wait failed: an abandoned mutex is acquired, the event
\* is WaitAbandoned and the error is nil.
FnWait(i, t, th, timeout) ==
    /\ timeout = Infinite => (~Valid(i) \/ owner \in {0, th, Abandoned})
    /\ IF ~Valid(i)
       THEN /\ lerr' = [lerr EXCEPT ![t] = {"wait"}]
            /\ UNCHANGED <<owner, count, levent, seen>>
       ELSE /\ seen' = [seen EXCEPT ![t] = Seen(th)]
            /\ IF owner \in {0, th, Abandoned}
               THEN /\ owner' = th
                    /\ count' = count + 1
                    /\ levent' = [levent EXCEPT ![t] =
                                      IF owner = Abandoned THEN WaitAbandoned
                                      ELSE WaitObject0]
               ELSE /\ levent' = [levent EXCEPT ![t] = WaitTimeout]
                    /\ UNCHANGED <<owner, count>>
            /\ UNCHANGED lerr
    /\ UNCHANGED <<open, nrel, nclh, failed>>

\* An Unlock closure that does not call ReleaseMutex.
FnReleaseNoop(i, t, th) ==
    UNCHANGED <<owner, count, open, lerr, levent, seen, nrel, nclh, failed>>

\* synchapi.ReleaseMutex(m.handle): fails unless th owns the mutex.
FnRelease(i, t, th) ==
    /\ IF Valid(i) /\ owner = th
       THEN /\ count' = count - 1
            /\ owner' = IF count = 1 THEN 0 ELSE owner
            /\ UNCHANGED lerr
       ELSE /\ lerr' = [lerr EXCEPT ![t] = {"release"}]
            /\ UNCHANGED <<owner, count>>
    /\ UNCHANGED <<open, levent, seen, nrel, nclh, failed>>

\* The closure of Close: ReleaseMutex if m.locked, then CloseHandle.  f is the
\* set of the system calls that fail for a reason of the system's own.  The
\* system destroys the mutex object with its last open handle.
FnClose(i, t, th, f) ==
    LET rel == locked[i]
        relOK == rel /\ "release" \notin f /\ Valid(i) /\ owner = th
        count1 == IF relOK THEN count - 1 ELSE count
        owner1 == IF relOK /\ count = 1 THEN 0 ELSE owner
        clOK == Valid(i) /\ "closehandle" \notin f
        last == clOK /\ OtherHandles(i) = {}
    IN
    /\ open' = [open EXCEPT ![i] = IF clOK THEN FALSE ELSE @]
    /\ owner' = IF last THEN 0 ELSE owner1
    /\ count' = IF last THEN 0 ELSE count1
    /\ lerr' = [lerr EXCEPT ![t] =
                   (IF rel /\ ~relOK THEN {"release"} ELSE {})
                       \cup (IF clOK THEN {} ELSE {"closehandle"})]
    /\ nrel' = [nrel EXCEPT ![i] = IF rel THEN @ + 1 ELSE @]
    /\ nclh' = [nclh EXCEPT ![i] = @ + 1]
    /\ failed' = (failed \/ (rel /\ "release" \in f) \/ "closehandle" \in f)
    /\ UNCHANGED <<levent, seen>>

\* The function a direct caller of Thread.Run passes: it makes no system call
\* on the mutex.
FnWork(i, t, th) ==
    UNCHANGED <<owner, count, open, lerr, levent, seen, nrel, nclh, failed>>

\* The worker runs the command it received, then closes the command's done
\* channel and goes back to receiving.
WorkerExec(i, f) ==
    LET t == wcmd[i]
        th == ExecThread(i, t)
    IN
    /\ worker[i] = "exec"
    /\ CASE op[t] = "New" -> FnCreate(i, t, th)
         [] op[t] = "Lock" -> FnWait(i, t, th, LockTimeout)
         [] op[t] = "TryLock" -> FnWait(i, t, th, TryLockTimeout)
         [] op[t] = "Unlock" -> FnRelease(i, t, th)
         [] op[t] = "Close" -> FnClose(i, t, th, f)
         [] op[t] = "Run" -> FnWork(i, t, th)
    /\ worker' = [worker EXCEPT ![i] = "recv"]
    /\ wcmd' = [wcmd EXCEPT ![i] = 0]
    /\ cdone' = [cdone EXCEPT ![t] = TRUE]
    /\ native' = [native EXCEPT ![t] = TRUE]
    /\ callers' = [callers EXCEPT ![i] = @ \cup {th}]
    /\ UNCHANGED <<mvars, cmds, tmutex, osthread>>
    /\ UNCHANGED <<pc, op, cur, arg, ret, after, nshut, closeReturned, step>>


-----------------------------------------------------------------------------
(* winmutex.Mutex *)

\* A call begins; its locals are fresh.
Begin(t, i, o) ==
    /\ op' = [op EXCEPT ![t] = o]
    /\ cur' = [cur EXCEPT ![t] = i]
    /\ after' = [after EXCEPT ![t] = closeReturned[i]]
    /\ UNCHANGED <<arg, ret, lerr, levent, cdone, seen, native>>

\* New(n) up to thread.Run: lockedthread.New makes the channels and starts the
\* worker goroutine, which locks itself to an OS thread and starts receiving.
DoNew(t, i, n) ==
    /\ pc[t] = "idle"
    /\ mstate[i] = "none"
    /\ Begin(t, i, "New")
    /\ name' = [name EXCEPT ![i] = n]
    /\ mstate' = [mstate EXCEPT ![i] = "constructing"]
    /\ cmds' = [cmds EXCEPT ![i] = "open"]
    /\ worker' = [worker EXCEPT ![i] = "recv"]
    /\ \E th \in PickThreads(i) : osthread' = [osthread EXCEPT ![i] = th]
    /\ pc' = [pc EXCEPT ![t] = "run"]
    /\ UNCHANGED <<thread, handle, locked, mutex, tmutex, wcmd, nvars>>
    /\ UNCHANGED <<callers, nrel, nclh, nshut, closeReturned, failed>>

\* Lock, TryLock, Unlock or Close is called on a Mutex that New returned; the
\* caller now waits for m.mutex.
DoCall(t, i, o) ==
    /\ pc[t] = "idle"
    /\ mstate[i] = "returned"
    /\ o \in Ops \ {"New"}
    /\ o \in {"Lock", "TryLock"} => count < MaxCount
    /\ Begin(t, i, o)
    /\ pc' = [pc EXCEPT ![t] = "enter"]
    /\ UNCHANGED <<mvars, tvars, nvars>>
    /\ UNCHANGED <<callers, nrel, nclh, nshut, closeReturned, failed>>

\* if m.thread == nil { panic(...) } of Lock and TryLock
LockPrecheckFails(i) == thread[i] = "nil"

\* Unlock without the m.locked test.
UnlockNoPrecheck(i) == FALSE

\* if !m.locked { panic(...) } of Unlock
UnlockPrecheckFails(i) == ~locked[i]

\* Close without the m.thread != nil test.
CloseNeverClosed(i) == FALSE

\* if m.thread != nil { ... } of Close, negated
CloseAlreadyClosed(i) == thread[i] = "nil"

\* m.mutex.Lock() and the code up to the call's first blocking point.
Enter(t) ==
    LET i == cur[t]
        o == op[t]
        fault == \/ o \in {"Lock", "TryLock"} /\ LockPrecheckFails(i)
                 \/ o = "Unlock" /\ UnlockPrecheckFails(i)
                 \* m.thread.Run or m.thread.Close on a nil *Thread: nil
                 \* pointer dereference
                 \/ o = "Unlock" /\ thread[i] = "nil"
                 \/ o = "Close" /\ ~CloseAlreadyClosed(i) /\ thread[i] = "nil"
    IN
    /\ pc[t] = "enter"
    /\ mutex[i] = 0
    /\ IF fault
       THEN /\ pc' = [pc EXCEPT ![t] = "done"]
            /\ ret' = [ret EXCEPT ![t] = "panic"]
            /\ UNCHANGED mutex
       ELSE IF o = "Close" /\ CloseAlreadyClosed(i)
       THEN /\ pc' = [pc EXCEPT ![t] = "done"]
            /\ ret' = [ret EXCEPT ![t] = "nil"]
            /\ UNCHANGED mutex
       ELSE /\ pc' = [pc EXCEPT ![t] =
                         IF o = "Close" /\ handle[i] = 0 THEN "tclose" ELSE "run"]
            /\ mutex' = [mutex EXCEPT ![i] = t]
            /\ UNCHANGED ret
    /\ UNCHANGED <<name, mstate, thread, handle, locked>>
    /\ UNCHANGED <<tvars, nvars, op, cur, arg, lerr, levent, cdone, hvars, step>>

\* TryLock without the WaitTimeout test.
TryLockResultAlways(event) == "true"

\* TryLock succeeding on the signaled event only.
TryLockResultSignaledOnly(event) == IF event = WaitObject0 THEN "true" ELSE "false"

\* What TryLock returns for the event of its wait.
TryLockResult(event) == IF event = WaitTimeout THEN "false" ELSE "true"

\* Close without m.locked = false.
CloseClearsHandleOnly(i) ==
    /\ handle' = [handle EXCEPT ![i] = 0]
    /\ UNCHANGED locked

\* Close, after the closure has run: m.handle = 0; m.locked = false.
CloseClears(i) ==
    /\ handle' = [handle EXCEPT ![i] = 0]
    /\ locked' = [locked EXCEPT ![i] = FALSE]

\* New without the thread.Close() of its error path: it returns the error and
\* leaves the worker running.
NewFailedNoClose(t) ==
    /\ pc' = [pc EXCEPT ![t] = "done"]
    /\ ret' = [ret EXCEPT ![t] = "err"]
    /\ mstate' = [mstate EXCEPT ![cur[t]] = "failed"]
    /\ UNCHANGED <<thread, handle, locked, mutex>>

\* New when the create failed: it calls thread.Close() before it returns.
NewFailed(t) ==
    /\ pc' = [pc EXCEPT ![t] = "tclose"]
    /\ UNCHANGED <<mstate, thread, handle, locked, mutex, ret>>

\* Run returning without the receive from done.
RunNoWait(t) == TRUE

\* <-done of Run: the worker has closed the command's done channel.
RunCompleted(t) == cdone[t]

\* Thread.Run returns (<-done, then the deferred t.mutex.Unlock()) and the
\* caller goes on to its next blocking point or returns.
RunDone(t) ==
    LET i == cur[t]
        o == op[t]
    IN
    /\ pc[t] = "runwait"
    /\ RunCompleted(t)
    /\ tmutex' = [tmutex EXCEPT ![i] = 0]
    /\ CASE o = "New" ->
              IF lerr[t] # {}
              THEN NewFailed(t)
              ELSE /\ mstate' = [mstate EXCEPT ![i] = "returned"]
                   /\ thread' = [thread EXCEPT ![i] = "set"]
                   /\ handle' = [handle EXCEPT ![i] = 1]
                   /\ locked' = [locked EXCEPT ![i] = FALSE]
                   /\ pc' = [pc EXCEPT ![t] = "done"]
                   /\ ret' = [ret EXCEPT ![t] = "ok"]
                   /\ UNCHANGED mutex
         [] o = "Lock" ->
              IF lerr[t] # {}
              THEN /\ Panic(t)
                   /\ UNCHANGED <<mstate, thread, handle, locked>>
              ELSE /\ locked' = [locked EXCEPT ![i] = TRUE]
                   /\ pc' = [pc EXCEPT ![t] = "done"]
                   /\ ret' = [ret EXCEPT ![t] = "ok"]
                   /\ mutex' = [mutex EXCEPT ![i] = 0]
                   /\ UNCHANGED <<mstate, thread, handle>>
         [] o = "TryLock" ->
              IF lerr[t] # {}
              THEN /\ Panic(t)
                   /\ UNCHANGED <<mstate, thread, handle, locked>>
              ELSE /\ locked' = [locked EXCEPT ![i] =
                                    IF TryLockResult(levent[t]) = "true" THEN TRUE ELSE @]
                   /\ pc' = [pc EXCEPT ![t] = "done"]
                   /\ ret' = [ret EXCEPT ![t] = TryLockResult(levent[t])]
                   /\ mutex' = [mutex EXCEPT ![i] = 0]
                   /\ UNCHANGED <<mstate, thread, handle>>
         [] o = "Unlock" ->
              IF lerr[t] # {}
              THEN /\ Panic(t)
                   /\ UNCHANGED <<mstate, thread, handle, locked>>
              ELSE /\ locked' = [locked EXCEPT ![i] = FALSE]
                   /\ pc' = [pc EXCEPT ![t] = "done"]
                   /\ ret' = [ret EXCEPT ![t] = "ok"]
                   /\ mutex' = [mutex EXCEPT ![i] = 0]
                   /\ UNCHANGED <<mstate, thread, handle>>
         [] o = "Close" ->
              /\ CloseClears(i)
              /\ pc' = [pc EXCEPT ![t] = "tclose"]
              /\ UNCHANGED <<mstate, thread, mutex, ret>>
         [] o = "Run" ->
              /\ pc' = [pc EXCEPT ![t] = "done"]
              /\ ret' = [ret EXCEPT ![t] = "ok"]
              /\ UNCHANGED <<mstate, thread, handle, locked, mutex>>
    /\ UNCHANGED <<name, cmds, worker, wcmd, osthread, nvars>>
    /\ UNCHANGED <<op, cur, arg, lerr, levent, cdone, hvars, step>>

\* Close without m.thread = nil.
CloseKeepsThread(i) == UNCHANGED thread

\* Close, after thread.Close(): m.thread = nil.
CloseClearsThread(i) == thread' = [thread EXCEPT ![i] = "nil"]

\* Close returning its first error only.
CloseResultFirst(errs) == IF "release" \in errs THEN "err" ELSE "nil"

\* return errors.Join(err1, err2, err3) of Close
CloseResult(errs) == IF errs = {} THEN "nil" ELSE "err"

\* Thread.Close has returned to its caller.  New (the create failed) returns
\* the error; Close returns errors.Join(err1, err2, err3); a direct caller of
\* Thread.Close gets nil.
Closed(t) ==
    LET i == cur[t] IN
    /\ pc' = [pc EXCEPT ![t] = "done"]
    /\ IF op[t] = "New"
       THEN /\ ret' = [ret EXCEPT ![t] = "err"]
            /\ mstate' = [mstate EXCEPT ![i] = "failed"]
            /\ UNCHANGED <<thread, mutex, closeReturned>>
       ELSE IF op[t] = "ThreadClose"
       THEN /\ ret' = [ret EXCEPT ![t] = "nil"]
            /\ closeReturned' = [closeReturned EXCEPT ![i] = TRUE]
            /\ UNCHANGED <<mstate, thread, mutex>>
       ELSE /\ ret' = [ret EXCEPT ![t] = CloseResult(lerr[t])]
            /\ CloseClearsThread(i)
            /\ mutex' = [mutex EXCEPT ![i] = 0]
            /\ closeReturned' = [closeReturned EXCEPT ![i] = TRUE]
            /\ UNCHANGED mstate

\* Thread.Close without the t.cmds == nil test.
CloseNeverFindsClosed(i) == FALSE

\* if t.cmds == nil { return nil } of Thread.Close
CloseFindsClosed(i) == cmds[i] = "nil"

\* Thread.Close up to <-t.done: take Thread.mutex; return nil if the thread is
\* closed already, else close the command channel.
TClose(t) ==
    LET i == cur[t] IN
    /\ pc[t] = "tclose"
    /\ ThreadMutexFree(i)
    /\ IF CloseFindsClosed(i)
       THEN /\ Closed(t)
            /\ UNCHANGED <<cmds, tmutex, nshut>>
       ELSE IF cmds[i] = "nil"
       THEN \* close of a nil channel panics
            /\ Panic(t)
            /\ UNCHANGED <<cmds, tmutex, nshut, mstate, thread, closeReturned>>
       ELSE /\ cmds' = [cmds EXCEPT ![i] = "closed"]
            /\ tmutex' = [tmutex EXCEPT ![i] = t]
            /\ nshut' = [nshut EXCEPT ![i] = @ + 1]
            /\ pc' = [pc EXCEPT ![t] = "tcwait"]
            /\ UNCHANGED <<ret, mstate, thread, mutex, closeReturned>>
    /\ UNCHANGED <<name, handle, locked, worker, wcmd, osthread, nvars>>
    /\ UNCHANGED <<op, cur, arg, lerr, levent, cdone>>
    /\ UNCHANGED <<seen, after, native, callers, nrel, nclh, failed, step>>

\* Thread.Close after the worker has exited: t.cmds = nil; t.done = nil.
TCloseDone(t) ==
    LET i == cur[t] IN
    /\ pc[t] = "tcwait"
    /\ worker[i] = "exited"
    /\ cmds' = [cmds EXCEPT ![i] = "nil"]
    /\ tmutex' = [tmutex EXCEPT ![i] = 0]
    /\ Closed(t)
    /\ UNCHANGED <<name, handle, locked, worker, wcmd, osthread, nvars>>
    /\ UNCHANGED <<op, cur, arg, lerr, levent, cdone>>
    /\ UNCHANGED <<seen, after, native, callers, nrel, nclh, nshut, failed, step>>

\* The call has returned or panicked and its frame is gone.  New returned no
\* Mutex if it failed: nothing refers to its Thread, and the slot is as unused.
Return(t) ==
    /\ pc[t] = "done"
    /\ pc' = [pc EXCEPT ![t] = "idle"]
    /\ op' = [op EXCEPT ![t] = "none"]
    /\ cur' = [cur EXCEPT ![t] = 1]
    /\ arg' = [arg EXCEPT ![t] = GoodName]
    /\ ret' = [ret EXCEPT ![t] = "none"]
    /\ lerr' = [lerr EXCEPT ![t] = {}]
    /\ levent' = [levent EXCEPT ![t] = WaitObject0]
    /\ cdone' = [cdone EXCEPT ![t] = FALSE]
    /\ seen' = [seen EXCEPT ![t] = "none"]
    /\ after' = [after EXCEPT ![t] = FALSE]
    /\ native' = [native EXCEPT ![t] = FALSE]
    /\ IF mstate[cur[t]] = "failed"
       THEN /\ mstate' = [mstate EXCEPT ![cur[t]] = "none"]
            /\ name' = [name EXCEPT ![cur[t]] = GoodName]
            /\ worker' = [worker EXCEPT ![cur[t]] = "none"]
            /\ osthread' = [osthread EXCEPT ![cur[t]] = 0]
            /\ callers' = [callers EXCEPT ![cur[t]] = {}]
            /\ nshut' = [nshut EXCEPT ![cur[t]] = 0]
       ELSE UNCHANGED <<mstate, name, worker, osthread, callers, nshut>>
    /\ UNCHANGED <<thread, handle, locked, mutex, cmds, tmutex, wcmd, nvars>>
    /\ UNCHANGED <<nrel, nclh, closeReturned, failed, step>>

-----------------------------------------------------------------------------
(* winmutex.Exists *)

\* synchapi.OpenMutex(n): the system rejects the name, finds no object of
\* that name, or opens a handle to the object.
OpenOutcome(n) ==
    IF n = BadName THEN "error"
    ELSE IF Handles = {} THEN "notfound"
    ELSE "ok"

\* Exists reporting every failed open as an error.
ExistsNotFoundIsError(out) == IF out = "ok" THEN "true" ELSE "err"

\* Exists reporting every failed open as absence.
ExistsErrorIsAbsence(out) == IF out = "ok" THEN "true" ELSE "false"

\* What Exists returns for the outcome of OpenMutex: (true, nil), (false, nil)
\* for ERROR_FILE_NOT_FOUND, and (false, err), written "err", otherwise.
ExistsResult(out) ==
    IF out = "ok" THEN "true"
    ELSE IF out = "notfound" THEN "false"
    ELSE "err"

\* Exists(n) up to its return or its deferred CloseHandle: the caller locks
\* its thread and calls OpenMutex.
DoExists(t, n) ==
    LET out == OpenOutcome(n) IN
    /\ pc[t] = "idle"
    /\ op' = [op EXCEPT ![t] = "Exists"]
    /\ arg' = [arg EXCEPT ![t] = n]
    /\ lerr' = [lerr EXCEPT ![t] = IF out = "ok" THEN {} ELSE {out}]
    /\ seen' = [seen EXCEPT ![t] =
                   IF Handles = {} THEN "absent"
                   ELSE IF \E i \in Inst : open[i] /\ name[i] = n THEN "instance"
                   ELSE "handle"]
    /\ IF out = "ok"
       THEN /\ pc' = [pc EXCEPT ![t] = "xclose"]
            /\ UNCHANGED ret
       ELSE /\ pc' = [pc EXCEPT ![t] = "done"]
            /\ ret' = [ret EXCEPT ![t] = ExistsResult(out)]
    /\ UNCHANGED <<mvars, tvars, nvars, cur, levent, cdone>>
    /\ UNCHANGED <<after, native, callers, nrel, nclh, nshut, closeReturned, failed>>

\* defer syscall.CloseHandle(handle), and Exists returns true.  The system
\* destroys the mutex object with its last open handle.
ExistsClose(t) ==
    LET last == OtherHandles(NInst + t) = {} IN
    /\ pc[t] = "xclose"
    /\ pc' = [pc EXCEPT ![t] = "done"]
    /\ ret' = [ret EXCEPT ![t] = ExistsResult("ok")]
    /\ owner' = IF last THEN 0 ELSE owner
    /\ count' = IF last THEN 0 ELSE count
    /\ UNCHANGED <<mvars, tvars, open, op, cur, arg, lerr, levent, cdone, hvars, step>>

-----------------------------------------------------------------------------
(* Another process using the named mutex *)

\* The other process creates or opens the mutex of the same name.
ExtOpen ==
    /\ ~open[Ext]
    /\ open' = [open EXCEPT ![Ext] = TRUE]
    /\ UNCHANGED <<mvars, tvars, owner, count, cvars, hvars, step>>

\* A wait of the other process's thread acquires the mutex.
ExtWait ==
    /\ open[Ext]
    /\ owner \in {0, Abandoned}
    /\ owner' = ExtThread
    /\ count' = 1
    /\ UNCHANGED <<mvars, tvars, open, cvars, hvars, step>>

\* The other process releases the mutex.
ExtRelease ==
    /\ owner = ExtThread
    /\ owner' = 0
    /\ count' = 0
    /\ UNCHANGED <<mvars, tvars, open, cvars, hvars, step>>

\* The other process terminates: the system closes its handle, and if its
\* thread owned the mutex the mutex is abandoned.  The system destroys the
\* mutex object with its last open handle.
ExtExit ==
    LET last == OtherHandles(Ext) = {} IN
    /\ open[Ext]
    /\ open' = [open EXCEPT ![Ext] = FALSE]
    /\ owner' = IF last THEN 0
                ELSE IF owner = ExtThread THEN Abandoned
                ELSE owner
    /\ count' = IF last \/ owner = ExtThread THEN 0 ELSE count
    /\ UNCHANGED <<mvars, tvars, cvars, hvars, step>>

-----------------------------------------------------------------------------
(* Callers *)

\* The system calls of Close that may fail for a reason of the system's own.
Fails == SUBSET {"release", "closehandle"}

New(t, i, n) == DoNew(t, i, n) /\ UNCHANGED step

Call(t, i, o) == DoCall(t, i, o) /\ UNCHANGED step

\* Any task calls anything on any instance.
Next ==
    \/ \E t \in Tasks, i \in Inst, n \in Names : New(t, i, n)
    \/ \E t \in Tasks, i \in Inst, o \in Ops : Call(t, i, o)
    \/ \E t \in Tasks : Enter(t)
    \/ \E t \in Tasks : RunLock(t)
    \/ \E t \in Tasks : RunSend(t)
    \/ \E i \in Inst, f \in Fails : WorkerExec(i, f)
    \/ \E t \in Tasks : RunDone(t)
    \/ \E t \in Tasks : TClose(t)
    \/ \E i \in Inst : WorkerExit(i)
    \/ \E t \in Tasks : TCloseDone(t)
    \/ \E t \in Tasks : Return(t)

Spec == Init /\ [][Next]_vars


\* TestMutexLockConcurrent: each task runs New, Lock, Unlock, Close on an
\* instance of its own, all of one name.
Script == <<"New", "Lock", "Unlock", "Close">>

ScriptCall(t) ==
    /\ t \in Inst
    /\ step[t] < Len(Script)
    /\ step' = [step EXCEPT ![t] = @ + 1]
    /\ IF Script[step[t] + 1] = "New"
       THEN DoNew(t, t, GoodName)
       ELSE DoCall(t, t, Script[step[t] + 1])

\* The scripted tasks, with no system call failing.
ScriptNext ==
    \/ \E t \in Tasks : ScriptCall(t)
    \/ \E t \in Tasks : Enter(t)
    \/ \E t \in Tasks : RunLock(t)
    \/ \E t \in Tasks : RunSend(t)
    \/ \E i \in Inst : WorkerExec(i, {})
    \/ \E t \in Tasks : RunDone(t)
    \/ \E t \in Tasks : TClose(t)
    \/ \E i \in Inst : WorkerExit(i)
    \/ \E t \in Tasks : TCloseDone(t)
    \/ \E t \in Tasks : Return(t)

\* The Go scheduler runs every goroutine that can run, and the system wakes a
\* waiter of a signaled mutex: some step is taken as long as one is possible.
ScriptSpec == Init /\ [][ScriptNext]_vars /\ WF_vars(ScriptNext)

\* lockedthread.New() called directly: the Thread of slot i is used by itself,
\* with no Mutex around it.
ThreadNew(t, i) ==
    /\ pc[t] = "idle"
    /\ mstate[i] = "none"
    /\ mstate' = [mstate EXCEPT ![i] = "thread"]
    /\ cmds' = [cmds EXCEPT ![i] = "open"]
    /\ worker' = [worker EXCEPT ![i] = "recv"]
    /\ \E th \in PickThreads(i) : osthread' = [osthread EXCEPT ![i] = th]
    /\ UNCHANGED <<name, thread, handle, locked, mutex, tmutex, wcmd>>
    /\ UNCHANGED <<nvars, cvars, hvars, step>>

\* Thread.Run(f) or Thread.Close() called directly on the Thread of slot i.
ThreadCall(t, i, o) ==
    /\ pc[t] = "idle"
    /\ mstate[i] = "thread"
    /\ o \in ThreadOps
    /\ Begin(t, i, o)
    /\ pc' = [pc EXCEPT ![t] = IF o = "Run" THEN "run" ELSE "tclose"]
    /\ UNCHANGED <<mvars, tvars, nvars>>
    /\ UNCHANGED <<callers, nrel, nclh, nshut, closeReturned, failed, step>>

\* Any task calls Run or Close on any Thread, as the tests of lockedthread do.
ThreadNext ==
    \/ \E t \in Tasks, i \in Inst : ThreadNew(t, i)
    \/ \E t \in Tasks, i \in Inst, o \in ThreadOps : ThreadCall(t, i, o)
    \/ \E t \in Tasks : RunLock(t)
    \/ \E t \in Tasks : RunSend(t)
    \/ \E i \in Inst : WorkerExec(i, {})
    \/ \E t \in Tasks : RunDone(t)
    \/ \E t \in Tasks : TClose(t)
    \/ \E i \in Inst : WorkerExit(i)
    \/ \E t \in Tasks : TCloseDone(t)
    \/ \E t \in Tasks : Return(t)

ThreadSpec == Init /\ [][ThreadNext]_vars

\* The Go scheduler runs every goroutine that can run: the worker receives,
\* runs and exits, and a caller whose receive or send can complete goes on.
\* sync.Mutex hands the lock to a goroutine that has waited long (starvation
\* mode), so a caller for which Thread.mutex is free again and again gets it.
ThreadLiveSpec ==
    /\ Init
    /\ [][ThreadNext]_vars
    /\ \A i \in Inst : WF_vars(WorkerExec(i, {})) /\ WF_vars(WorkerExit(i))
    /\ \A t \in Tasks :
           /\ SF_vars(RunLock(t))
           /\ WF_vars(RunSend(t))
           /\ WF_vars(RunDone(t))
           /\ WF_vars(TCloseDone(t))

Exists(t, n) == DoExists(t, n) /\ UNCHANGED step

\* Any task calls anything on any instance, or Exists, with no system call of
\* Close failing.
ExistsNext ==
    \/ \E t \in Tasks, n \in Names : Exists(t, n)
    \/ \E t \in Tasks : ExistsClose(t)
    \/ \E t \in Tasks, i \in Inst : New(t, i, GoodName)
    \/ \E t \in Tasks, i \in Inst, o \in Ops : Call(t, i, o)
    \/ \E t \in Tasks : Enter(t)
    \/ \E t \in Tasks : RunLock(t)
    \/ \E t \in Tasks : RunSend(t)
    \/ \E i \in Inst : WorkerExec(i, {})
    \/ \E t \in Tasks : RunDone(t)
    \/ \E t \in Tasks : TClose(t)
    \/ \E i \in Inst : WorkerExit(i)
    \/ \E t \in Tasks : TCloseDone(t)
    \/ \E t \in Tasks : Return(t)

ExistsSpec == Init /\ [][ExistsNext]_vars

\* Any task calls anything on any instance while another process uses the
\* mutex of the same name and may terminate; no system call of Close fails.
AbandonNext ==
    \/ ExtOpen
    \/ ExtWait
    \/ ExtRelease
    \/ ExtExit
    \/ \E t \in Tasks, i \in Inst : New(t, i, GoodName)
    \/ \E t \in Tasks, i \in Inst, o \in Ops : Call(t, i, o)
    \/ \E t \in Tasks : Enter(t)
    \/ \E t \in Tasks : RunLock(t)
    \/ \E t \in Tasks : RunSend(t)
    \/ \E i \in Inst : WorkerExec(i, {})
    \/ \E t \in Tasks : RunDone(t)
    \/ \E t \in Tasks : TClose(t)
    \/ \E i \in Inst : WorkerExit(i)
    \/ \E t \in Tasks : TCloseDone(t)
    \/ \E t \in Tasks : Return(t)

AbandonSpec == Init /\ [][AbandonNext]_vars


-----------------------------------------------------------------------------
(* Properties *)

Returned(t, o) == pc[t] = "done" /\ op[t] = o

\* Instance i's worker thread owns the system mutex.
Owns(i) == Live(i) /\ owner = osthread[i]

\* C1: a TryLock on an instance whose wait ran while the worker thread of
\* another open instance of the same name owned the system mutex returns false.
C1_TryLockFalseWhileHeld ==
    \A t \in Tasks :
        (Returned(t, "TryLock") /\ seen[t] = "other") => ret[t] = "false"

C1_Witness ==
    \E t \in Tasks : \E a \in Inst \ {cur[t]} :
        /\ Returned(t, "TryLock") /\ seen[t] = "other" /\ ret[t] = "false"
        /\ locked[a] /\ Owns(a)

ScriptTasks == Tasks \cap Inst

\* Task t is between its Lock, which has returned, and its call of Unlock.
Holding(t) ==
    /\ step[t] = 2
    /\ pc[t] = "idle" \/ (Returned(t, "Lock") /\ ret[t] = "ok")

\* C2, as stated: with every task running New, Lock, Unlock, Close on its own
\* instance of the one name, at most one instance has locked = TRUE in any
\* state.
C2_OneLockedFlag == Cardinality({i \in Inst : locked[i]}) <= 1

\* C2, amended: at most one task is between a returned Lock and its call of
\* the following Unlock; two instances have locked = TRUE together only while
\* one of them is inside an Unlock whose ReleaseMutex has already run.
C2_OneLockHolder ==
    /\ Cardinality({t \in ScriptTasks : Holding(t)}) <= 1
    /\ \A i \in Inst : \A j \in Inst \ {i} :
          (locked[i] /\ locked[j]) =>
              \E t \in Tasks :
                  /\ op[t] = "Unlock" /\ cur[t] \in {i, j}
                  /\ pc[t] = "runwait" /\ cdone[t]

\* One task holds the lock while another instance's Lock is blocked.
C2_Witness ==
    \E t \in ScriptTasks : \E j \in Inst \ {t} :
        /\ Holding(t) /\ locked[t]
        /\ worker[j] = "exec" /\ op[wcmd[j]] = "Lock"

ScriptDone == \A t \in ScriptTasks : step[t] = Len(Script) /\ pc[t] = "idle"

\* C3: with every task running New, Lock, Unlock, Close on its own instance,
\* no system call failing and scheduling fair, every Close returns no error,
\* no state short of the end is a deadlock, and every task eventually finishes
\* its four calls.
C3_ScriptCompletes ==
    /\ [](\A t \in Tasks : Returned(t, "Close") => ret[t] = "nil")
    /\ [](ScriptDone \/ ENABLED ScriptNext)
    /\ <>ScriptDone

C3_Witness ==
    /\ ScriptDone
    /\ \A i \in ScriptTasks : closeReturned[i] /\ worker[i] = "exited"

\* C4: every system call made on an instance's handle was made by the one OS
\* thread its worker goroutine is locked to.
C4_ThreadAffinity == \A i \in Inst : callers[i] \subseteq {osthread[i]}

C4_Witness ==
    \E i \in Inst :
        /\ closeReturned[i] /\ nrel[i] = 1 /\ nclh[i] = 1
        /\ callers[i] = {osthread[i]}

\* C5: a Lock, TryLock or Unlock that begins after a Close of its instance has
\* returned panics on the method's own test, without reaching Thread.Run and
\* without a system call.
C5_FaultAfterClose ==
    \A t \in Tasks :
        (after[t] /\ op[t] \in {"Lock", "TryLock", "Unlock"}) =>
            /\ pc[t] \in {"enter", "done"}
            /\ ~native[t]
            /\ pc[t] = "done" => ret[t] = "panic"

\* An Unlock panics on an instance that was closed while locked.
C5_Witness ==
    \E t \in Tasks :
        /\ after[t] /\ Returned(t, "Unlock") /\ ret[t] = "panic"
        /\ nrel[cur[t]] = 1

\* C6: over all Close calls on an instance the closure's ReleaseMutex runs at
\* most once, CloseHandle and close(cmds) run once, and a Close that begins
\* after one has returned makes no system call and returns no error.
C6_CloseIdempotent ==
    /\ \A i \in Inst :
        /\ nrel[i] <= 1 /\ nclh[i] <= 1 /\ nshut[i] <= 1
        /\ closeReturned[i] =>
              /\ nclh[i] = 1 /\ nshut[i] = 1
              /\ worker[i] = "exited" /\ thread[i] = "nil"
    /\ \A t \in Tasks :
        /\ (after[t] /\ op[t] = "Close") => ~native[t] /\ pc[t] \in {"enter", "done"}
        /\ (after[t] /\ Returned(t, "Close")) => ret[t] = "nil"
        /\ (Returned(t, "Close") /\ ~native[t]) => ret[t] = "nil"

\* A second Close returns nil after a first that released, and reported a
\* failure of CloseHandle.
C6_Witness ==
    \E t \in Tasks :
        /\ after[t] /\ Returned(t, "Close") /\ ret[t] = "nil"
        /\ nrel[cur[t]] = 1 /\ failed

\* C7: once a Close has returned (no system call having failed), the thread
\* the instance's worker was locked to does not go on owning the system mutex,
\* and a TryLock that finds no open instance owning the mutex returns true.
C7_CloseUnlocks ==
    ~failed =>
        /\ \A i \in Inst :
              closeReturned[i] =>
                  ~(owner = osthread[i] /\ owner \notin LockedThreads)
        /\ \A t \in Tasks :
              (Returned(t, "TryLock") /\ seen[t] \notin {"none", "other"}) =>
                  ret[t] = "true"

\* C8: an Unlock that finds locked = FALSE panics at once: no command is
\* submitted, and locked, the handle, the executor and the system mutex are
\* left as they were.
C8_UnlockUnlockedFaults ==
    [][\A t \in Tasks :
          (/\ pc[t] = "enter" /\ op[t] = "Unlock"
           /\ ~locked[cur[t]]
           /\ pc'[t] # "enter") =>
              /\ pc'[t] = "done" /\ ret'[t] = "panic" /\ ~native'[t]
              /\ UNCHANGED <<locked, handle, thread, cmds, worker, wcmd>>
              /\ UNCHANGED <<owner, count, open>>]_vars

\* An Unlock has panicked on an open instance that is not locked.
C8_Witness ==
    \E t \in Tasks :
        /\ Returned(t, "Unlock") /\ ret[t] = "panic"
        /\ ~after[t] /\ thread[cur[t]] = "set" /\ ~locked[cur[t]]

\* C9: a Lock returns only after its wait found the system mutex free: never
\* while it is still owned from an earlier acquisition.
C9_LockWaitsForHolder ==
    \A t \in Tasks :
        (Returned(t, "Lock") /\ ret[t] = "ok") => seen[t] = "free"

\* The call in progress on instance i is a Lock whose infinite wait is blocked
\* on a mutex that another thread owns.
LockBlocked(i) ==
    /\ mutex[i] # 0 /\ op[mutex[i]] = "Lock"
    /\ worker[i] = "exec" /\ wcmd[i] = mutex[i]
    /\ Valid(i) /\ owner \notin {0, osthread[i]}

\* C10: a TryLock never waits for a lock holder: it is never waiting for
\* m.mutex behind a Lock that is itself waiting for the holder to release.
C10_TryLockNeverWaits ==
    \A t \in Tasks :
        (op[t] = "TryLock" /\ pc[t] = "enter") => ~LockBlocked(cur[t])

\* C11: when the create call of New fails, New returns an error and no Mutex,
\* and before it returns the executor is shut down: the command channel is
\* closed and released, the worker has exited, and no handle is open.
C11_NewFailureCleansUp ==
    \A t \in Tasks :
        (Returned(t, "New") /\ name[cur[t]] = BadName) =>
            /\ ret[t] = "err"
            /\ mstate[cur[t]] = "failed"
            /\ thread[cur[t]] = "nil"
            /\ handle[cur[t]] = 0
            /\ ~open[cur[t]]
            /\ worker[cur[t]] = "exited"
            /\ cmds[cur[t]] = "nil"
            /\ nshut[cur[t]] = 1

C11_Witness ==
    \E t \in Tasks :
        /\ Returned(t, "New")
        /\ ret[t] = "err"
        /\ worker[cur[t]] = "exited"

\* C12: a Run that starts after a Close of its executor has returned raises a
\* fault: its work is never executed, it never waits for a completion, and
\* when it is over it has panicked.
C12_RunAfterCloseFaults ==
    \A t \in Tasks :
        (op[t] = "Run" /\ after[t]) =>
            /\ ~native[t]
            /\ pc[t] \in {"run", "done"}
            /\ wcmd[cur[t]] # t
            /\ pc[t] = "done" => ret[t] = "panic"

C12_Witness ==
    \E t \in Tasks :
        /\ Returned(t, "Run")
        /\ after[t]
        /\ ret[t] = "panic"
        /\ nshut[cur[t]] = 1

\* The tasks whose work the executor of slot i has received and not completed.
Executing(i) ==
    {t \in Tasks : op[t] = "Run" /\ cur[t] = i /\ pc[t] = "runwait" /\ ~cdone[t]}

\* C13: with any number of tasks in Run on one executor, at most one work item
\* is executing, the one the worker received, and every work item was run by
\* the worker's thread, never by the submitting task's.
C13_OneWorkerRunsAll ==
    \A i \in Inst :
        mstate[i] = "thread" =>
            /\ Cardinality(Executing(i)) <= 1
            /\ Executing(i) = (IF worker[i] = "exec" THEN {wcmd[i]} ELSE {})
            /\ callers[i] \subseteq {osthread[i]}
            /\ CallerThread \notin callers[i]

C13_Witness ==
    \E i \in Inst, t, u \in Tasks :
        /\ t # u
        /\ Executing(i) = {t}
        /\ op[u] = "Run" /\ cur[u] = i /\ pc[u] = "run"
        /\ callers[i] = {osthread[i]}

\* C14: Thread.Close is idempotent: every Close returns no error, the command
\* channel is closed at most once, and once a Close has returned it has been
\* closed exactly once and the worker has exited.
C14_ThreadCloseIdempotent ==
    /\ \A t \in Tasks : Returned(t, "ThreadClose") => ret[t] = "nil"
    /\ \A i \in Inst :
           /\ nshut[i] <= 1
           /\ (mstate[i] = "thread" /\ closeReturned[i]) =>
                  /\ nshut[i] = 1
                  /\ worker[i] = "exited"
                  /\ cmds[i] = "nil"

C14_Witness ==
    \E t \in Tasks :
        /\ Returned(t, "ThreadClose")
        /\ after[t]
        /\ ret[t] = "nil"
        /\ worker[cur[t]] = "exited"

\* C15: Exists of a name the system accepts returns false with no error when
\* its open runs while no handle to the named object is open, and true with
\* no error when it runs while an instance of that name has its handle open,
\* locked or not.
C15_ExistsTellsOpenInstances ==
    \A t \in Tasks :
        (Returned(t, "Exists") /\ arg[t] = GoodName) =>
            /\ seen[t] = "absent" => ret[t] = "false"
            /\ seen[t] = "instance" => ret[t] = "true"

C15_Witness ==
    \E t, u \in Tasks :
        /\ Returned(t, "Exists") /\ seen[t] = "absent" /\ ret[t] = "false"
        /\ Returned(u, "Exists") /\ seen[u] = "instance" /\ ret[u] = "true"
        /\ \E i \in Inst : locked[i] /\ Owns(i)

\* A step of task t inside Exists.
ExistsStep(t) == pc'[t] # pc[t] /\ op'[t] = "Exists" /\ pc'[t] # "idle"

\* C16: Exists returns (false, nil) when the open finds no object, (false,
\* err) when the open fails otherwise and (true, nil) when it succeeds; it
\* has closed the handle it opened when it returns, and its steps leave the
\* handles of everyone else, the owner and the recursion count as they are,
\* unless its handle was the last and the object goes with it.
C16_ExistsMapsOpenOutcome ==
    /\ [](\A t \in Tasks :
             Returned(t, "Exists") =>
                 /\ NInst + t \notin Handles
                 /\ lerr[t] = {} => ret[t] = "true"
                 /\ lerr[t] = {"notfound"} => ret[t] = "false"
                 /\ lerr[t] = {"error"} => ret[t] = "err")
    /\ [][\A t \in Tasks :
             ExistsStep(t) =>
                 /\ open' = open
                 /\ Handles' \ {NInst + t} = Handles \ {NInst + t}
                 /\ \/ owner' = owner /\ count' = count
                    \/ Handles' = {} /\ owner' = 0 /\ count' = 0]_vars

C16_Witness ==
    \E t, u \in Tasks :
        /\ Returned(t, "Exists") /\ lerr[t] = {"error"} /\ ret[t] = "err"
        /\ Returned(u, "Exists") /\ lerr[u] = {} /\ ret[u] = "true"
        /\ owner # 0 /\ count > 0

\* No call on instance i is in progress.
Quiet(i) == \A t \in Tasks : pc[t] \in {"idle", "done"} \/ cur[t] # i

\* C17: whenever no call on an open instance is in progress and its locked
\* flag is false, its worker thread does not own the system mutex.
C17_UnlockedNotOwner ==
    \A i \in Inst :
        (mstate[i] = "returned" /\ thread[i] = "set" /\ Quiet(i) /\ ~locked[i]) =>
            ~Owns(i)

\* C18 as stated: in every state, locked = true implies that the instance is
\* not closed and that its worker thread owns the system mutex.
C18_LockedOwns ==
    \A i \in Inst :
        locked[i] => handle[i] # 0 /\ thread[i] = "set" /\ Owns(i)

\* The closure of an Unlock or a Close of instance i has made its system
\* calls, and the call has not yet resumed to assign m.locked = false.
Releasing(i) ==
    \E t \in Tasks :
        /\ cur[t] = i
        /\ op[t] \in {"Unlock", "Close"}
        /\ pc[t] = "runwait"
        /\ cdone[t]

\* C18: locked = true implies that the instance is not closed (handle
\* non-zero, executor present), and that its worker thread owns the system
\* mutex unless an Unlock or a Close of the instance has just released it and
\* not yet cleared the flag.
C18_LockedOwnsUnlessReleasing ==
    \A i \in Inst :
        locked[i] =>
            /\ handle[i] # 0
            /\ thread[i] = "set"
            /\ Owns(i) \/ Releasing(i)

C18_Witness ==
    \E i \in Inst :
        /\ locked[i]
        /\ Releasing(i)
        /\ ~Owns(i)

\* C19: a Close whose release or handle close fails still tears the instance
\* down (handle cleared, locked false, executor shut down, reference
\* cleared), has attempted the handle close whatever the release did, and
\* returns an error exactly when a call failed; a Close after it returns nil.
C19_CloseFailureTearsDown ==
    \A t \in Tasks :
        LET i == cur[t] IN
        /\ (Returned(t, "Close") /\ native[t]) =>
               /\ handle[i] = 0
               /\ ~locked[i]
               /\ thread[i] = "nil"
               /\ cmds[i] = "nil"
               /\ worker[i] = "exited"
               /\ nclh[i] = 1
               /\ lerr[t] # {} <=> ret[t] = "err"
               /\ lerr[t] = {} <=> ret[t] = "nil"
        /\ (Returned(t, "Close") /\ after[t]) => ret[t] = "nil" /\ ~native[t]

C19_Witness ==
    \E t \in Tasks :
        /\ Returned(t, "Close")
        /\ lerr[t] = {"release", "closehandle"}
        /\ ret[t] = "err"
        /\ nclh[cur[t]] = 1
        /\ thread[cur[t]] = "nil"

\* The wait of task t's Lock or TryLock reported the abandoned outcome.
WaitWasAbandoned(t) ==
    /\ op[t] \in {"Lock", "TryLock"}
    /\ native[t]
    /\ lerr[t] = {}
    /\ levent[t] = WaitAbandoned

\* C20 as stated: a Lock or TryLock whose wait reports the abandoned outcome
\* raises a fault and does not set locked = true.
C20_AbandonedIsFatal ==
    \A t \in Tasks :
        (pc[t] = "done" /\ WaitWasAbandoned(t)) =>
            ret[t] = "panic" /\ ~locked[cur[t]]

\* C20: Lock and TryLock fault only when the wait returns an error.  A wait
\* that reports the abandoned outcome returns none: the worker thread owns
\* the mutex, Lock returns and TryLock returns true, with locked = true when
\* they return.
C20_AbandonedIsAcquired ==
    /\ \A t \in Tasks :
           WaitWasAbandoned(t) =>
               /\ seen[t] = "abandoned"
               /\ pc[t] = "done" =>
                      ret[t] = (IF op[t] = "Lock" THEN "ok" ELSE "true")
    /\ [][\A t \in Tasks :
             (WaitWasAbandoned(t) /\ pc[t] = "runwait" /\ pc'[t] = "done") =>
                 locked'[cur[t]] /\ owner' = osthread[cur[t]]]_vars

C20_Witness ==
    \E t, u \in Tasks :
        /\ pc[t] = "done" /\ WaitWasAbandoned(t) /\ op[t] = "Lock"
        /\ pc[u] = "done" /\ WaitWasAbandoned(u) /\ op[u] = "TryLock"
        /\ ret[t] = "ok" /\ ret[u] = "true"

\* C21: Thread.Run returns only after the worker has run the submitted work
\* to its end: a call that has returned normally through Run has had its
\* work run, and a call leaves its wait in Run only when the worker has
\* finished its work and holds it no more, the effects of the work in place
\* (for New, the handle open and no error, or the error and no handle).
C21_RunIsSynchronous ==
    /\ [](\A t \in Tasks :
             (pc[t] = "done" /\ op[t] \in {"New", "Lock", "TryLock", "Unlock", "Run"}
                 /\ ret[t] # "panic") => native[t])
    /\ [][\A t \in Tasks :
             (pc[t] = "runwait" /\ pc'[t] # "runwait") =>
                 /\ cdone[t]
                 /\ native[t]
                 /\ wcmd[cur[t]] # t
                 /\ op[t] = "New" =>
                        /\ lerr[t] \in {{}, {"create"}}
                        /\ lerr[t] = {} <=> open[cur[t]]
                        /\ lerr[t] = {} <=> ret'[t] = "ok"
                        /\ lerr[t] = {} <=> handle'[cur[t]] = 1]_vars

C21_Witness ==
    \E t, u \in Tasks :
        /\ Returned(t, "New") /\ ret[t] = "ok" /\ open[cur[t]]
        /\ Returned(u, "New") /\ ret[u] = "err" /\ lerr[u] = {"create"}

\* Task t is inside Run on the Thread of slot i.
InRun(t, i) == op[t] = "Run" /\ cur[t] = i

\* C22: however Run and Close calls on one executor interleave, a Run is at
\* its send only on the open channel of a live worker, a Run that has sent
\* waits for a live worker that holds its work or has completed it, a Run
\* that is over has had its work run to the end or has raised the
\* closed-executor fault with no work run, and every Run comes to its end.
C22_RunAndCloseInterleave ==
    /\ [](\A t \in Tasks, i \in Inst :
             InRun(t, i) =>
                 /\ pc[t] = "send" =>
                        cmds[i] = "open" /\ Live(i) /\ tmutex[i] = t
                 /\ pc[t] = "runwait" =>
                        /\ cmds[i] = "open" /\ Live(i) /\ tmutex[i] = t
                        /\ cdone[t] \/ (worker[i] = "exec" /\ wcmd[i] = t)
                        /\ cdone[t] => native[t]
                 /\ pc[t] = "done" =>
                        \/ ret[t] = "ok" /\ native[t]
                        \/ ret[t] = "panic" /\ ~native[t] /\ wcmd[i] # t)
    /\ \A t \in Tasks : (op[t] = "Run") ~> (pc[t] = "done")

C22_Witness ==
    \E i \in Inst, t, u \in Tasks :
        /\ InRun(t, i) /\ pc[t] = "runwait" /\ ~cdone[t]
        /\ op[u] = "ThreadClose" /\ cur[u] = i /\ pc[u] = "tclose"
        /\ worker[i] = "exec"

=============================================================================
